---- MODULE Spec2Model ----
(***************************************************************************)
(* Model of the Jira link plugin of release-please-action:                 *)
(*   src/plugins/jira-link.ts        (extractJiraTicket, generateJiraLink, *)
(*                                    formatJiraLink, addJiraLinksToCommits)*)
(*   src/plugins/jira-link-plugin.ts (JiraLinkPlugin, createJiraLinkPlugin)*)
(* Text is modelled by TLA+ strings (Len, \o and SubSeq act on them), a    *)
(* JavaScript value that may be undefined or null by a tagged record.      *)
(***************************************************************************)
EXTENDS Integers, Sequences, FiniteSets, TLC

VARIABLES env, plugin, heap, list, opts, via, pc, idx, loc, raised, ret,
          logs, called, again, before, orig, fn

vars == <<env, plugin, heap, list, opts, via, pc, idx, loc, raised, ret,
          logs, called, again, before, orig, fn>>

(***************************************************************************)
(* JavaScript values                                                       *)
(***************************************************************************)
Undefined == [t |-> "undefined"]

Null == [t |-> "null"]

Str(s) == [t |-> "string", v |-> s]

Bool(b) == [t |-> "boolean", v |-> b]

Rx(r) == [t |-> "regexp", v |-> r]

Obj(o) == [t |-> "object", v |-> o]

\* ToBoolean: undefined, null, "" and false are falsy
Truthy(x) ==
    CASE x.t = "undefined" -> FALSE
      [] x.t = "null" -> FALSE
      [] x.t = "string" -> x.v # ""
      [] x.t = "boolean" -> x.v
      [] OTHER -> TRUE

\* a || b
OrElse(a, b) == IF Truthy(a) THEN a ELSE b

(***************************************************************************)
(* Characters and strings                                                  *)
(***************************************************************************)
LowerStr == "abcdefghijklmnopqrstuvwxyz"

UpperStr == "ABCDEFGHIJKLMNOPQRSTUVWXYZ"

DigitStr == "0123456789"

\* the text of s from position a to position b (1-based, clipped to s)
Sub(s, a, b) ==
    IF a > b \/ a > Len(s) THEN ""
    ELSE SubSeq(s, a, IF b <= Len(s) THEN b ELSE Len(s))

CharAt(s, i) == IF i >= 1 /\ i <= Len(s) THEN SubSeq(s, i, i) ELSE ""

Chars(s) == {SubSeq(s, i, i) : i \in 1..Len(s)}

UpperChars == Chars(UpperStr)

LowerChars == Chars(LowerStr)

DigitChars == Chars(DigitStr)

IsUpper(c) == c \in UpperChars

IsLower(c) == c \in LowerChars

IsDigit(c) == c \in DigitChars

\* the upper-case letter of every lower-case letter
UpperOf ==
    [c \in LowerChars |->
        LET i == CHOOSE j \in 1..Len(LowerStr) : SubSeq(LowerStr, j, j) = c
        IN SubSeq(UpperStr, i, i)]

\* String.prototype.toUpperCase on one character
UpperChar(c) == IF IsLower(c) THEN UpperOf[c] ELSE c

RECURSIVE toUpperCase(_)
toUpperCase(s) ==
    IF s = "" THEN ""
    ELSE UpperChar(SubSeq(s, 1, 1)) \o toUpperCase(SubSeq(s, 2, Len(s)))

\* as includes, letter case ignored
includesAnyCase(s, t) ==
    \E p \in 1..(Len(s) + 1) :
        /\ p + Len(t) - 1 <= Len(s)
        /\ toUpperCase(SubSeq(s, p, p + Len(t) - 1)) = toUpperCase(t)

\* String.prototype.includes
includes(s, t) ==
    \E p \in 0..(Len(s) - Len(t)) : SubSeq(s, p + 1, p + Len(t)) = t

(***************************************************************************)
(* Matching rules (RegExp values).  A rule is the pattern                  *)
(*     (pre)? KEY - \d+                                                    *)
(* where KEY is [A-Z]{lo,hi} when keys = {} and (k1|k2|...) otherwise, pre  *)
(* is an optional literal prefix ("" when the pattern has none), group     *)
(* says what capturing group 1 encloses ("whole": KEY-\d+, "key": KEY,     *)
(* "pre": the optional prefix, "none": the pattern has no group), and      *)
(* ignoreCase / global are the i and g flags.                              *)
(***************************************************************************)
Rule(pre, keys, lo, hi, group, ic, g) ==
    [pre |-> pre, keys |-> keys, lo |-> lo, hi |-> hi, group |-> group,
     ignoreCase |-> ic, global |-> g]

\* /([A-Z]{2,10}-\d+)/i
DefaultLo == 2

DefaultHi == 10

\* a rule whose key may be a single letter: /([A-Z]{1,10}-\d+)/i
DefaultPatternLo1 == Rule("", {}, 1, DefaultHi, "whole", TRUE, FALSE)

DefaultPattern == Rule("", {}, DefaultLo, DefaultHi, "whole", TRUE, FALSE)

\* canonical comparison of two texts under the rule's case flag
SameText(a, b, ic) == IF ic THEN toUpperCase(a) = toUpperCase(b) ELSE a = b

\* the class [A-Z], widened to both cases by the i flag
IsClassLetter(c, ic) == IsUpper(c) \/ (ic /\ IsLower(c))

RECURSIVE LetterRun(_, _, _)
LetterRun(s, p, ic) ==
    IF IsClassLetter(CharAt(s, p), ic) THEN 1 + LetterRun(s, p + 1, ic) ELSE 0

RECURSIVE DigitRun(_, _)
DigitRun(s, p) == IF IsDigit(CharAt(s, p)) THEN 1 + DigitRun(s, p + 1) ELSE 0

SetMax(S) == CHOOSE x \in S : \A y \in S : y <= x

SetMin(S) == CHOOSE x \in S : \A y \in S : x <= y

\* the repetition counts of {lo,hi} that a run of letters allows
Counts(lo, hi, run) == {k \in lo..hi : k <= run}

\* key lengths that [A-Z]{lo,hi} can take at p
ClassLens(s, p, r) == Counts(r.lo, r.hi, LetterRun(s, p, r.ignoreCase))

\* key lengths that (k1|k2|...) can take at p
AltLens(s, p, r) ==
    {Len(a) : a \in {b \in r.keys :
        SameText(Sub(s, p, p + Len(b) - 1), b, r.ignoreCase)}}

\* as Followed, with \d* in place of \d+
FollowedNoDigit(s, p, cand) == {k \in cand : CharAt(s, p + k) = "-"}

\* of the candidate key lengths, those after which "-\d+" can follow
Followed(s, p, cand) ==
    {k \in cand : CharAt(s, p + k) = "-" /\ IsDigit(CharAt(s, p + k + 1))}

\* lengths k such that KEY matches s[p .. p+k-1] and "-\d+" can follow
KeyLens(s, p, r) ==
    Followed(s, p, IF r.keys = {} THEN ClassLens(s, p, r) ELSE AltLens(s, p, r))

NoMatch == [found |-> FALSE]

\* the match of KEY-\d+ at p with a key of k letters; \d+ is greedy
CoreOf(s, p, k) ==
    [found |-> TRUE, start |-> p, end |-> p + k + DigitRun(s, p + k + 1),
     klen |-> k]

\* greedy key: the longest key that lets the rest match
LongestKey(s, p, ks) == IF ks = {} THEN NoMatch ELSE CoreOf(s, p, SetMax(ks))

\* KEY-\d+ anchored at p
CoreAt(s, p, r) == LongestKey(s, p, KeyLens(s, p, r))

\* the optional prefix at p followed by KEY-\d+
PreAt(s, p, r) ==
    IF r.pre # "" /\ SameText(Sub(s, p, p + Len(r.pre) - 1), r.pre, r.ignoreCase)
    THEN CoreAt(s, p + Len(r.pre), r)
    ELSE NoMatch

\* capturing group 1 of a match that starts at p
Group1(s, p, r, core, hasPre) ==
    CASE r.group = "whole" -> Str(Sub(s, core.start, core.end))
      [] r.group = "key" -> Str(Sub(s, core.start, core.start + core.klen - 1))
      [] r.group = "pre" -> IF hasPre THEN Str(Sub(s, p, p + Len(r.pre) - 1))
                            ELSE Undefined
      [] OTHER -> Undefined

MatchOf(s, p, r, core, hasPre) ==
    IF ~core.found THEN NoMatch
    ELSE [found |-> TRUE, start |-> p, end |-> core.end,
          full |-> Sub(s, p, core.end), g1 |-> Group1(s, p, r, core, hasPre)]

\* the optional prefix is tried first, then the pattern without it
WithOrWithout(s, p, r, withPre) ==
    IF withPre.found THEN MatchOf(s, p, r, withPre, TRUE)
    ELSE MatchOf(s, p, r, CoreAt(s, p, r), FALSE)

\* the whole pattern anchored at p
ExecAt(s, p, r) == WithOrWithout(s, p, r, PreAt(s, p, r))

Leftmost(s, r, ps) == IF ps = {} THEN NoMatch ELSE ExecAt(s, SetMin(ps), r)

\* positions from which the pattern matches
Starts(s, from, r) ==
    {p \in from..Len(s) : KeyLens(s, p, r) # {} \/ PreAt(s, p, r).found}

\* RegExp.prototype.exec from position from: the leftmost match
Exec(s, from, r) == Leftmost(s, r, Starts(s, from, r))

RECURSIVE MatchAll(_, _, _)
MatchesFrom(s, r, m) ==
    IF ~m.found THEN <<>> ELSE <<Str(m.full)>> \o MatchAll(s, m.end + 1, r)

\* every match of a global rule, left to right, not overlapping
MatchAll(s, from, r) == MatchesFrom(s, r, Exec(s, from, r))

\* the array that a match without the g flag returns
MatchArray(r, m) ==
    IF ~m.found THEN Null
    ELSE Obj(IF r.group = "none" THEN <<Str(m.full)>> ELSE <<Str(m.full), m.g1>>)

\* the array that a match with the g flag returns: the matched texts
GlobalArray(all) == IF all = <<>> THEN Null ELSE Obj(all)

\* String.prototype.match: null, or the array of the match
match(s, r) ==
    IF r.global THEN GlobalArray(MatchAll(s, 1, r))
    ELSE MatchArray(r, Exec(s, 1, r))

\* array[i] with JavaScript's zero-based index; out of range is undefined
At(arr, i) == IF i + 1 <= Len(arr.v) THEN arr.v[i + 1] ELSE Undefined

Throw == [t |-> "throw"]

\* as UpperOrThrow, the captured text returned as it was written
UpperOrThrowAsIs(x) == IF x.t = "string" THEN x ELSE Throw

\* x.toUpperCase(): a TypeError when x is undefined
UpperOrThrow(x) == IF x.t = "string" THEN Str(toUpperCase(x.v)) ELSE Throw

\* match ? match[1].toUpperCase() : null
TicketFrom(m) == IF Truthy(m) THEN UpperOrThrow(At(m, 1)) ELSE Null

extractJiraTicket(branchName, ticketPattern) ==
    TicketFrom(match(branchName, ticketPattern))

\* as generateJiraLink, a trailing "/" of the base URL dropped first
generateJiraLinkTrimmed(ticketId, jiraBaseUrl) ==
    (IF CharAt(jiraBaseUrl, Len(jiraBaseUrl)) = "/"
     THEN Sub(jiraBaseUrl, 1, Len(jiraBaseUrl) - 1) ELSE jiraBaseUrl)
      \o "/browse/" \o ticketId

\* `${jiraBaseUrl}/browse/${ticketId}`
generateJiraLink(ticketId, jiraBaseUrl) == jiraBaseUrl \o "/browse/" \o ticketId

\* as formatJiraLink, the inline form without its leading space
formatJiraLinkNoSpace(ticketId, jiraBaseUrl, linkStyle) ==
    IF linkStyle = "newline"
    THEN "\n  [" \o ticketId \o "](" \o generateJiraLink(ticketId, jiraBaseUrl) \o ")"
    ELSE "([" \o ticketId \o "](" \o generateJiraLink(ticketId, jiraBaseUrl) \o "))"

formatJiraLink(ticketId, jiraBaseUrl, linkStyle) ==
    LET link == generateJiraLink(ticketId, jiraBaseUrl)
    IN IF linkStyle = "newline"
       THEN "\n  [" \o ticketId \o "](" \o link \o ")"
       ELSE " ([" \o ticketId \o "](" \o link \o "))"

(***************************************************************************)
(* Options, environment and commit records                                 *)
(***************************************************************************)
\* the default base URL written with a trailing slash
DefaultBaseUrlSlash == "https://yourcompany.atlassian.net/"

DefaultBaseUrl == "https://yourcompany.atlassian.net"

DefaultLinkStyle == "inline"

\* JiraLinkOptions: every field is optional
Options(url, rule, style, debug) ==
    [jiraBaseUrl |-> url, ticketPattern |-> rule, linkStyle |-> style,
     debug |-> debug]

\* the "Set defaults" block of addJiraLinksToCommits
SetDefaults(options) ==
    [jiraBaseUrl |-> OrElse(options.jiraBaseUrl, Str(DefaultBaseUrl)).v,
     ticketPattern |-> OrElse(options.ticketPattern, Rx(DefaultPattern)).v,
     linkStyle |-> OrElse(options.linkStyle, Str(DefaultLinkStyle)).v,
     debug |-> Truthy(OrElse(options.debug, Bool(FALSE)))]

\* as JiraOptions, the environment's base URL taken before the caller's
JiraOptionsEnvFirst(options, e) ==
    [jiraBaseUrl |-> OrElse(OrElse(e.JIRA_BASE_URL, options.jiraBaseUrl),
                            Str(DefaultBaseUrl)),
     ticketPattern |-> OrElse(options.ticketPattern, Rx(DefaultPattern)),
     linkStyle |-> OrElse(options.linkStyle, Str(DefaultLinkStyle)),
     debug |-> OrElse(options.debug, Bool(e.JIRA_LINK_DEBUG = Str("true")))]

\* this.jiraOptions as the JiraLinkPlugin constructor builds it
JiraOptions(options, e) ==
    [jiraBaseUrl |-> OrElse(OrElse(options.jiraBaseUrl, e.JIRA_BASE_URL),
                            Str(DefaultBaseUrl)),
     ticketPattern |-> OrElse(options.ticketPattern, Rx(DefaultPattern)),
     linkStyle |-> OrElse(options.linkStyle, Str(DefaultLinkStyle)),
     debug |-> OrElse(options.debug, Bool(e.JIRA_LINK_DEBUG = Str("true")))]

\* commit.pullRequest && commit.pullRequest.headBranchName
HasBranch(c) ==
    Truthy(c.pullRequest) /\ Truthy(c.pullRequest.v.headBranchName)

BranchOf(c) == c.pullRequest.v.headBranchName.v

\* the ticket of a commit that has a branch: a string, null, or a throw
TicketOf(c, o) == extractJiraTicket(BranchOf(c), o.ticketPattern)

\* as AppendLinks, without the duplicate checks
AppendLinksNoGuard(c, ticketId, o) ==
    [c EXCEPT
       !.message = c.message \o formatJiraLink(ticketId, o.jiraBaseUrl, o.linkStyle),
       !.bareMessage =
           c.bareMessage \o formatJiraLink(ticketId, o.jiraBaseUrl, o.linkStyle)]

\* as AppendLinks, one duplicate check (on message) deciding both appends
AppendLinksJoint(c, ticketId, o) ==
    IF includes(c.message, ticketId) THEN c
    ELSE AppendLinksNoGuard(c, ticketId, o)

\* as AppendLinks, the link written over the field instead of after it
AppendLinksReplace(c, ticketId, o) ==
    [c EXCEPT
       !.message = IF ~includes(c.message, ticketId)
                   THEN formatJiraLink(ticketId, o.jiraBaseUrl, o.linkStyle)
                   ELSE c.message,
       !.bareMessage = IF ~includes(c.bareMessage, ticketId)
                       THEN formatJiraLink(ticketId, o.jiraBaseUrl, o.linkStyle)
                       ELSE c.bareMessage]

\* as AppendLinks, the append to message moved into the if (debug) block
\* that follows it
AppendLinksVerbose(c, ticketId, o) ==
    [c EXCEPT
       !.message = IF ~includes(c.message, ticketId) /\ o.debug
                   THEN c.message
                          \o formatJiraLink(ticketId, o.jiraBaseUrl, o.linkStyle)
                   ELSE c.message,
       !.bareMessage = IF ~includes(c.bareMessage, ticketId)
                       THEN c.bareMessage
                              \o formatJiraLink(ticketId, o.jiraBaseUrl, o.linkStyle)
                       ELSE c.bareMessage]

\* as AppendLinks, without the block that updates bareMessage
AppendLinksMessageOnly(c, ticketId, o) ==
    [c EXCEPT
       !.message = IF ~includes(c.message, ticketId)
                   THEN c.message
                          \o formatJiraLink(ticketId, o.jiraBaseUrl, o.linkStyle)
                   ELSE c.message]

\* the two guarded appends of the loop body, on one commit record
AppendLinks(c, ticketId, o) ==
    LET jiraLink == formatJiraLink(ticketId, o.jiraBaseUrl, o.linkStyle)
    IN [c EXCEPT
          !.message = IF ~includes(c.message, ticketId)
                      THEN c.message \o jiraLink ELSE c.message,
          !.bareMessage = IF ~includes(c.bareMessage, ticketId)
                          THEN c.bareMessage \o jiraLink ELSE c.bareMessage]

\* the first guarded append alone: the message field
FirstAppend(c, ticketId, o) ==
    [c EXCEPT !.message =
        IF ~includes(c.message, ticketId)
        THEN c.message \o formatJiraLink(ticketId, o.jiraBaseUrl, o.linkStyle)
        ELSE c.message]

\* the record as the loop body leaves it when a field it reads is missing:
\* commit.message.includes raises before anything is written,
\* commit.bareMessage.includes raises after the message was handled
UntilTypeError(c, ticketId, o) ==
    IF "message" \in c.absent THEN c ELSE FirstAppend(c, ticketId, o)

\* console.log lines of one annotated commit when debug is on
AnnotateLogs(c, ticketId, o) ==
    IF o.debug THEN 1 + (IF ~includes(c.message, ticketId) THEN 1 ELSE 0)
    ELSE 0

(***************************************************************************)
(* Inputs                                                                  *)
(***************************************************************************)
MaxCommits == 2

\* the commit records of the model
Records == {1, 2}

\* (message, bareMessage) of a commit: with or without a ticket's text
MessagePairs == {<<"fix", "fix">>, <<"fix", "fix AB-1">>, <<"fix AB-1", "fix">>}

PullRequest(b) == Obj([headBranchName |-> b])

PullRequests ==
    {Undefined} \cup
    {PullRequest(b) : b \in {Undefined, Str(""), Str("fix-typo"),
                             Str("ab-1-x"), Str("AB-1-cd-2")}}

ShaOf(ref) == Sub("0123456789abcdef0123456789abcdef", ref, ref + 7)

\* ConventionalCommit: the fields the plugin reads or writes.  absent names
\* the text fields the object lacks (reading one gives undefined); a record
\* of the declared type lacks none.
Commit(sha, m, b, pr) ==
    [sha |-> sha, type |-> "fix", message |-> m, bareMessage |-> b,
     pullRequest |-> pr, absent |-> {}]

\* the commit object c without the fields named
Lacking(c, fields) == [c EXCEPT !.absent = fields]

\* the commits of a release: every message pair with every pull request
HostCommits ==
    {Commit("", mp[1], mp[2], pr) : mp \in MessagePairs, pr \in PullRequests}

\* /(AB|CD)-\d+/i, the documented project-restricted shape
KeyPattern == Rule("", {"AB", "CD"}, 0, 0, "key", TRUE, FALSE)

\* /([A-Z]{2,10}-\d+)/gi
GlobalPattern == Rule("", {}, DefaultLo, DefaultHi, "whole", TRUE, TRUE)

CallerOptions ==
    {Options(Undefined, r, Undefined, Undefined) :
        r \in {Undefined, Rx(KeyPattern), Rx(GlobalPattern)}}
    \cup
    {Options(Str("https://j.example"), r, Str("newline"), Bool(TRUE)) :
        r \in {Undefined, Rx(KeyPattern), Rx(GlobalPattern)}}

Env(url, dbg) == [JIRA_BASE_URL |-> url, JIRA_LINK_DEBUG |-> dbg]

NoEnv == Env(Undefined, Undefined)

Environments == {NoEnv, Env(Str("https://env.example"), Str("true"))}

\* lists of commit references; the same record may occur twice.  Records
\* are numbered in order of first occurrence.
RefLists ==
    {l \in UNION {[1..n -> Records] : n \in 0..MaxCommits} :
        \A i \in 1..Len(l) :
            l[i] = 1 \/ \E j \in 1..(i - 1) : l[j] >= l[i] - 1}

NumObjs(l) == IF l = <<>> THEN 0 ELSE SetMax({l[i] : i \in 1..Len(l)})

(***************************************************************************)
(* State machine                                                           *)
(*   env     process.env              plugin  this.jiraOptions             *)
(*   heap    the commit records       list    the commits array            *)
(*   opts    the caller's options     via     "direct" or "plugin"         *)
(*   pc      control point            idx     position of the for loop     *)
(*   loc     the defaults block's locals      raised  the engine threw     *)
(*   ret     the value returned       logs    console.log lines written    *)
(*   called  a call has finished      again   the current call is a repeat *)
(*   before  the records at the start of the current call                  *)
(*   orig    the list and records as the host pipeline built them          *)
(*   fn      a call of extractJiraTicket or formatJiraLink on its own      *)
(***************************************************************************)
NoCall == [op |-> "none"]

\* commit c as record r of the heap
WithSha(c, r) == [c EXCEPT !.sha = ShaOf(r)]

\* a release run: the host pipeline hands a list of commits, drawn from
\* the set commits, to the plugin, whose caller passes one of options
EngineStart(commits, options, envs) ==
    /\ list \in RefLists
    /\ \E f \in [1..NumObjs(list) -> commits] :
          heap = [r \in 1..NumObjs(list) |-> WithSha(f[r], r)]
    /\ opts \in options
    /\ via \in {"direct", "plugin"}
    /\ env \in IF via = "plugin" THEN envs ELSE {NoEnv}
    /\ plugin = Undefined
    /\ pc = IF via = "plugin" THEN "new" ELSE "idle"
    /\ idx = 0
    /\ loc = Undefined
    /\ raised = FALSE
    /\ ret = Undefined
    /\ logs = 0
    /\ called = FALSE
    /\ again = FALSE
    /\ before = heap
    /\ orig = [commits |-> list, records |-> heap]
    /\ fn = NoCall

InitEngine == EngineStart(HostCommits, CallerOptions, Environments)

\* new JiraLinkPlugin(github, targetBranch, repositoryConfig, options)
Construct ==
    /\ pc = "new"
    /\ plugin' = Obj(JiraOptions(opts, env))
    /\ pc' = "idle"
    /\ UNCHANGED <<env, heap, list, opts, via, idx, loc, raised, ret, logs,
                   called, again,
                   before, orig, fn>>

\* entry of addJiraLinksToCommits(commits, options): defaults, first log
Enter(options) ==
    /\ loc' = Obj(SetDefaults(options))
    /\ logs' = IF SetDefaults(options).debug THEN 1 ELSE 0
    /\ idx' = 1
    /\ pc' = "loop"
    /\ raised' = FALSE
    /\ ret' = Undefined
    /\ before' = heap
    /\ again' = called

\* a caller invokes the exported function itself
CallDirect ==
    /\ via = "direct"
    /\ pc \in {"idle", "returned", "thrown"}
    /\ Enter(opts)
    /\ UNCHANGED <<env, plugin, heap, list, opts, via, called, orig, fn>>

\* JiraLinkPlugin.processCommits(commits): the try block is entered
ProcessCommits ==
    /\ via = "plugin"
    /\ pc \in {"idle", "returned"}
    /\ Enter(plugin.v)
    /\ UNCHANGED <<env, plugin, heap, list, opts, via, called, orig, fn>>

InLoop == pc = "loop" /\ idx <= Len(list)

Cur == heap[list[idx]]

\* as SkipCommit, the branch name read without the pullRequest guard:
\* a TypeError when the commit has no pull request
SkipCommitThrows ==
    /\ InLoop
    /\ ~HasBranch(Cur)
    /\ pc' = IF Truthy(Cur.pullRequest) THEN pc ELSE "throwing"
    /\ raised' = ~Truthy(Cur.pullRequest)
    /\ idx' = IF Truthy(Cur.pullRequest) THEN idx + 1 ELSE idx
    /\ UNCHANGED <<env, plugin, heap, list, opts, via, loc, ret, logs, called,
                   again, before, orig, fn>>

\* loop body: no pull request or no branch name
SkipCommit ==
    /\ InLoop
    /\ ~HasBranch(Cur)
    /\ logs' = logs + (IF loc.v.debug THEN 1 ELSE 0)
    /\ idx' = idx + 1
    /\ UNCHANGED <<env, plugin, heap, list, opts, via, pc, loc, raised, ret,
                   called, again,
                   before, orig, fn>>

\* loop body: the branch name holds no ticket
NoTicket(ticketId) ==
    /\ ticketId # Throw
    /\ ~Truthy(ticketId)
    /\ logs' = logs + (IF loc.v.debug THEN 1 ELSE 0)
    /\ idx' = idx + 1
    /\ UNCHANGED <<env, plugin, heap, list, opts, via, pc, loc, raised, ret,
                   called, again, before, orig, fn>>

\* loop body: a ticket was found, both fields get their guarded append
Annotate(ticketId) ==
    /\ ticketId # Throw
    /\ Truthy(ticketId)
    /\ Cur.absent = {}
    /\ heap' = [heap EXCEPT ![list[idx]] = AppendLinks(Cur, ticketId.v, loc.v)]
    /\ logs' = logs + AnnotateLogs(Cur, ticketId.v, loc.v)
    /\ idx' = idx + 1
    /\ UNCHANGED <<env, plugin, list, opts, via, pc, loc, raised, ret, called,
                   again, before, orig, fn>>

\* loop body: match[1] is undefined, toUpperCase raises a TypeError
ExtractThrows(ticketId) ==
    /\ ticketId = Throw
    /\ pc' = "throwing"
    /\ raised' = TRUE
    /\ UNCHANGED <<env, plugin, heap, list, opts, via, idx, loc, ret, logs,
                   called, again, before, orig, fn>>

\* loop body: a ticket was found, includes is called on a missing field
\* and raises a TypeError
FieldThrows(ticketId) ==
    /\ ticketId # Throw
    /\ Truthy(ticketId)
    /\ Cur.absent # {}
    /\ heap' = [heap EXCEPT ![list[idx]] = UntilTypeError(Cur, ticketId.v, loc.v)]
    /\ logs' = logs + (IF "message" \in Cur.absent
                       THEN (IF loc.v.debug THEN 1 ELSE 0)
                       ELSE AnnotateLogs(Cur, ticketId.v, loc.v))
    /\ pc' = "throwing"
    /\ raised' = TRUE
    /\ UNCHANGED <<env, plugin, list, opts, via, idx, loc, ret, called, again,
                   before, orig, fn>>

\* the ways on from const ticketId = extractJiraTicket(...)
WithTicket(ticketId) ==
    \/ NoTicket(ticketId)
    \/ Annotate(ticketId)
    \/ FieldThrows(ticketId)
    \/ ExtractThrows(ticketId)

\* loop body of a commit that has a branch name
BranchCommit == InLoop /\ HasBranch(Cur) /\ WithTicket(TicketOf(Cur, loc.v))

\* what the caller of a finished call sees
Finish(p) ==
    /\ pc' = p
    /\ called' = TRUE

\* as Return, handing back a copy of the array
ReturnCopy ==
    /\ pc = "loop"
    /\ idx > Len(list)
    /\ ret' = Obj("copy")
    /\ Finish("returned")
    /\ UNCHANGED <<env, plugin, heap, list, opts, via, idx, loc, raised, logs,
                   again, before, orig, fn>>

\* return commits
Return ==
    /\ pc = "loop"
    /\ idx > Len(list)
    /\ ret' = Obj("commits")
    /\ Finish("returned")
    /\ UNCHANGED <<env, plugin, heap, list, opts, via, idx, loc, raised, logs,
                   again, before, orig, fn>>

\* as Catch, the error logged and thrown again
CatchRethrows ==
    /\ pc = "throwing"
    /\ via = "plugin"
    /\ ret' = Undefined
    /\ Finish("thrown")
    /\ UNCHANGED <<env, plugin, heap, list, opts, via, idx, loc, raised, logs,
                   again, before, orig, fn>>

\* catch (error) of processCommits: log it, return commits
Catch ==
    /\ pc = "throwing"
    /\ via = "plugin"
    /\ ret' = Obj("commits")
    /\ Finish("returned")
    /\ UNCHANGED <<env, plugin, heap, list, opts, via, idx, loc, raised, logs,
                   again, before, orig, fn>>

\* a direct call has no handler: the error reaches the caller
Propagate ==
    /\ pc = "throwing"
    /\ via = "direct"
    /\ ret' = Undefined
    /\ Finish("thrown")
    /\ UNCHANGED <<env, plugin, heap, list, opts, via, idx, loc, raised, logs,
                   again, before, orig, fn>>

(***************************************************************************)
(* addJiraLinksToCommits as a function of its arguments: the loop folded   *)
(* over the list.  The result is the records as the call leaves them and   *)
(* whether it raised.                                                      *)
(***************************************************************************)
Passed(c) == [c |-> c, ok |-> TRUE]

Raising(c) == [c |-> c, ok |-> FALSE]

\* the loop body on commit c once the ticket of its branch is known
BodyWith(c, o, ticketId) ==
    IF ticketId = Throw THEN Raising(c)
    ELSE IF ~Truthy(ticketId) THEN Passed(c)
    ELSE IF c.absent # {} THEN Raising(UntilTypeError(c, ticketId.v, o))
    ELSE Passed(AppendLinks(c, ticketId.v, o))

\* the loop body on commit c
Body(c, o) ==
    IF HasBranch(c) THEN BodyWith(c, o, TicketOf(c, o)) ELSE Passed(c)

RECURSIVE Loop(_, _, _, _)
\* the loop after the body ran on l[i] with result b
After(h, l, i, o, b) ==
    IF b.ok THEN Loop([h EXCEPT ![l[i]] = b.c], l, i + 1, o)
    ELSE [heap |-> [h EXCEPT ![l[i]] = b.c], raised |-> TRUE]

\* for (const commit of commits), from position i on, o the resolved options
Loop(h, l, i, o) ==
    IF i > Len(l) THEN [heap |-> h, raised |-> FALSE]
    ELSE After(h, l, i, o, Body(h[l[i]], o))

(***************************************************************************)
(* Calls of the two pure helpers on their own                              *)
(***************************************************************************)
MaxLetters == 12

Word(mode) ==
    CASE mode = "upper" -> "VERYLONGPROJECTS"
      [] mode = "lower" -> "verylongprojects"
      [] OTHER -> "vErYlOnGpRoJeCtS"

\* a branch name: prefix, k letters, a separator, digits, suffix
Branch(sh) ==
    sh.pre \o Sub(Word(sh.mode), 1, sh.k) \o sh.sep \o sh.digits \o sh.suf

Shapes ==
    [pre : {"", "feature/", "9-"}, k : 0..MaxLetters,
     mode : {"upper", "lower", "mixed"}, sep : {"-", "_"},
     digits : {"", "7", "123"}, suf : {"", "-foo", "-cd-2"}]

\* branch names the documentation names
NamedBranches ==
    {"playg-1008-foo", "PLAYG-1008-test-feature", "fix-typo", "P-123",
     "VERYLONGPROJECT-123", "QUIKS-674-bug-fix", "feature/AB-12", "main", "",
     "OTHER-5-fix", "playg-1008-quiks-674"}

\* /[A-Z]{2,10}-\d+/i : no capturing group
NoGroupPattern == Rule("", {}, DefaultLo, DefaultHi, "none", TRUE, FALSE)

\* /(feature\/)?[A-Z]{2,10}-\d+/i : the group need not take part in a match
OptGroupPattern ==
    Rule("feature/", {}, DefaultLo, DefaultHi, "pre", TRUE, FALSE)

\* /(PLAYG|QUIKS|TICKET)-\d+/i
DocPattern == Rule("", {"PLAYG", "QUIKS", "TICKET"}, 0, 0, "key", TRUE, FALSE)

Patterns ==
    {DefaultPattern, KeyPattern, GlobalPattern, NoGroupPattern, OptGroupPattern,
     DocPattern}

ExtractCall(sh, b, r) ==
    [op |-> "extract", shape |-> sh, branchName |-> b, ticketPattern |-> r,
     done |-> FALSE, out |-> Undefined]

FormatCall(t, u, st) ==
    [op |-> "format", ticketId |-> t, jiraBaseUrl |-> u, linkStyle |-> st,
     done |-> FALSE, out |-> Undefined]

TicketIds == {"QUIKS-674", "PLAYG-1008", "AB-1"}

BaseUrls == {"https://example.atlassian.net", DefaultBaseUrl, "https://j.example/"}

LinkStyles == {"inline", "newline"}

PureCalls ==
    {ExtractCall(Obj(sh), Branch(sh), r) : sh \in Shapes, r \in Patterns}
    \cup {ExtractCall(Undefined, b, r) : b \in NamedBranches, r \in Patterns}
    \cup {FormatCall(t, u, st) : t \in TicketIds, u \in BaseUrls, st \in LinkStyles}

\* one call of extractJiraTicket or formatJiraLink, nothing else running
InitPure ==
    /\ fn \in PureCalls
    /\ env = NoEnv
    /\ plugin = Undefined
    /\ list = <<>>
    /\ heap = <<>>
    /\ opts = Options(Undefined, Undefined, Undefined, Undefined)
    /\ via = "direct"
    /\ pc = "pure"
    /\ idx = 0
    /\ loc = Undefined
    /\ raised = FALSE
    /\ ret = Undefined
    /\ logs = 0
    /\ called = FALSE
    /\ again = FALSE
    /\ before = heap
    /\ orig = [commits |-> list, records |-> heap]

CallExtract ==
    /\ fn.op = "extract"
    /\ ~fn.done
    /\ fn' = [fn EXCEPT !.done = TRUE,
                        !.out = extractJiraTicket(fn.branchName, fn.ticketPattern)]
    /\ UNCHANGED <<env, plugin, heap, list, opts, via, pc, idx, loc, raised,
                   ret, logs, called, again, before, orig>>

CallFormat ==
    /\ fn.op = "format"
    /\ ~fn.done
    /\ fn' = [fn EXCEPT !.done = TRUE,
                        !.out = Str(formatJiraLink(fn.ticketId, fn.jiraBaseUrl,
                                                   fn.linkStyle))]
    /\ UNCHANGED <<env, plugin, heap, list, opts, via, pc, idx, loc, raised,
                   ret, logs, called, again, before, orig>>

Next ==
    \/ Construct
    \/ CallDirect
    \/ ProcessCommits
    \/ SkipCommit
    \/ BranchCommit
    \/ Return
    \/ Catch
    \/ Propagate
    \/ CallExtract
    \/ CallFormat

Init == InitEngine \/ InitPure

Spec == Init /\ [][Next]_vars

(***************************************************************************)
(* Releases built from the documented example: the commit                  *)
(* "feat: add feature" merged from branch PLAYG-1008-test-feature          *)
(***************************************************************************)
DocMessage == "feat: add feature"

DocBranch == "PLAYG-1008-test-feature"

DocCommit(m, b, branch) == Commit("", m, b, PullRequest(Str(branch)))

\* the example commit; commits of other branches; commits whose fields
\* already hold the ticket's text in some form; a commit object that lacks
\* bareMessage; a commit without pull request
DocCommits ==
    {DocCommit(DocMessage, DocMessage, DocBranch),
     DocCommit(DocMessage, DocMessage, "OTHER-5-fix"),
     DocCommit(DocMessage, DocMessage, "playg-1008-quiks-674"),
     DocCommit("see PLAYG-10081", DocMessage, DocBranch),
     DocCommit("fix playg-1008", "PLAYG-1008 fix", DocBranch),
     Lacking(DocCommit(DocMessage, DocMessage, DocBranch), {"bareMessage"}),
     Commit("", DocMessage, DocMessage, Undefined)}

DocRules == {Undefined, Rx(DocPattern), Rx(GlobalPattern)}

\* a caller's options: nothing but a rule; an empty base URL with debug
\* false; a base URL that ends in "/" with style, debug and a rule
DocOptions ==
    {Options(Undefined, r, Undefined, Undefined) : r \in DocRules}
    \cup {Options(Str(""), Undefined, Undefined, Bool(FALSE))}
    \cup {Options(Str("https://j.example/"), r, Str("newline"), Bool(TRUE)) :
            r \in DocRules}

\* process.env: nothing set; both variables set; JIRA_BASE_URL empty and
\* JIRA_LINK_DEBUG set to a text other than 'true'
DocEnvironments ==
    {NoEnv, Env(Str("https://env.example"), Str("true")), Env(Str(""), Str("TRUE"))}

InitDoc == EngineStart(DocCommits, DocOptions, DocEnvironments) \/ InitPure

SpecDoc == InitDoc /\ [][Next]_vars

TypeOK ==
    /\ pc \in {"new", "idle", "loop", "throwing", "returned", "thrown", "pure"}
    /\ called \in BOOLEAN /\ again \in BOOLEAN
    /\ idx \in 0..(Len(list) + 1)
    /\ DOMAIN heap = DOMAIN before

(***************************************************************************)
(* Properties                                                              *)
(***************************************************************************)
\* number of places of s where t occurs
Occ(s, t) == Cardinality({p \in 1..Len(s) : Sub(s, p, p + Len(t) - 1) = t})

\* new is old with something appended
Extended(new, old) == Len(new) > Len(old) /\ Sub(new, 1, Len(old)) = old

\* the records the loop of the current call has gone past
Processed == {list[j] : j \in 1..(idx - 1)}

EngineRun == pc \in {"loop", "throwing", "returned", "thrown"}

\* new holds at most one "/browse/" more than old
OneLinkMore(new, old) ==
    new = old \/ Occ(new, "/browse/") <= Occ(old, "/browse/") + 1

C2_AllOrNothing ==
    (via = "plugin" /\ pc = "returned" /\ raised) => heap = before

\* a finished call of extractJiraTicket with rule r
Extracted(r) == fn.op = "extract" /\ fn.done /\ fn.ticketPattern = r

\* the branch name of the call was built from a shape
Shaped == fn.shape.t = "object"

\* the branch name is exactly k letters, "-", digits
LettersDashDigits ==
    /\ Shaped
    /\ fn.shape.v.pre = "" /\ fn.shape.v.suf = ""
    /\ fn.shape.v.sep = "-" /\ fn.shape.v.digits # ""

\* C3: upper length bound of the default rule: a branch name whose only
\* ticket-shaped text is a run of 11 or more letters, "-" and digits yields
\* no ticket.
C3_LongKeyAbsent ==
    /\ (Extracted(DefaultPattern) /\ Shaped /\ fn.shape.v.pre = ""
          /\ fn.shape.v.k >= 11 /\ fn.shape.v.sep = "-"
          /\ fn.shape.v.digits # "" /\ fn.shape.v.suf \in {"", "-foo"})
         => fn.out = Null
    /\ (Extracted(DefaultPattern) /\ fn.branchName = "VERYLONGPROJECT-123")
         => fn.out = Null

\* C4: lower length bound of the default rule: k letters, "-", digits gives
\* the whole text in upper case when 2 <= k <= 10 and no ticket when k = 1.
C4_LowerBound ==
    /\ (Extracted(DefaultPattern) /\ LettersDashDigits)
         => /\ fn.shape.v.k \in 2..10
                 => fn.out = Str(Sub(Word("upper"), 1, fn.shape.v.k) \o "-"
                                   \o fn.shape.v.digits)
            /\ fn.shape.v.k = 1 => fn.out = Null
    /\ (Extracted(DefaultPattern) /\ fn.branchName = "P-123") => fn.out = Null

\* ten letters in mixed case were extracted as one upper-case ticket
C4_Witness ==
    /\ Extracted(DefaultPattern) /\ LettersDashDigits
    /\ fn.shape.v.k = 10 /\ fn.shape.v.mode = "mixed"
    /\ fn.out = Str("VERYLONGPR-" \o fn.shape.v.digits)

\* the lower-case letter of every upper-case letter
LowerOfUpper ==
    [c \in UpperChars |->
        LET i == CHOOSE j \in 1..Len(UpperStr) : SubSeq(UpperStr, j, j) = c
        IN SubSeq(LowerStr, i, i)]

RECURSIVE LowerCased(_)
LowerCased(s) ==
    IF s = "" THEN ""
    ELSE (IF IsUpper(SubSeq(s, 1, 1)) THEN LowerOfUpper[SubSeq(s, 1, 1)]
          ELSE SubSeq(s, 1, 1)) \o LowerCased(SubSeq(s, 2, Len(s)))

\* t is 2 to 10 upper-case letters, "-", one or more digits
TicketShaped(t) ==
    \E k \in 2..10 :
        /\ k + 2 <= Len(t)
        /\ \A i \in 1..k : IsUpper(CharAt(t, i))
        /\ CharAt(t, k + 1) = "-"
        /\ \A i \in (k + 2)..Len(t) : IsDigit(CharAt(t, i))

\* some part of s, read in upper case, is ticket-shaped
HoldsTicket(s) ==
    \E p \in 1..Len(s) : \E q \in p..Len(s) :
        TicketShaped(toUpperCase(SubSeq(s, p, q)))

\* C5: case normalisation: whatever the case of the branch name and whatever
\* surrounds the ticket, the default rule yields the captured text in upper
\* case, the same for branch names that differ only in letter case.
C5_UpperCase ==
    Extracted(DefaultPattern) =>
        /\ fn.out.t = "string" <=> HoldsTicket(fn.branchName)
        /\ fn.out.t = "string"
             => /\ TicketShaped(fn.out.v)
                /\ includes(toUpperCase(fn.branchName), fn.out.v)
        /\ fn.out = extractJiraTicket(toUpperCase(fn.branchName), DefaultPattern)
        /\ fn.out = extractJiraTicket(LowerCased(fn.branchName), DefaultPattern)
        /\ fn.branchName = "playg-1008-foo" => fn.out = Str("PLAYG-1008")

\* the lower-case branch of the documentation gave the upper-case ticket
C5_Witness ==
    /\ Extracted(DefaultPattern)
    /\ fn.branchName = "playg-1008-foo"
    /\ fn.out = Str("PLAYG-1008")

\* no letter of b is followed by "-" and a digit
NoLettersDigits(b) ==
    ~\E p \in 1..Len(b) :
        /\ IsUpper(CharAt(b, p)) \/ IsLower(CharAt(b, p))
        /\ CharAt(b, p + 1) = "-"
        /\ IsDigit(CharAt(b, p + 2))

\* the record has a branch name, and it holds no letters-digits text
PlainBranch(c) ==
    /\ c.pullRequest # Undefined
    /\ c.pullRequest.v.headBranchName.t = "string"
    /\ c.pullRequest.v.headBranchName.v # ""
    /\ NoLettersDigits(c.pullRequest.v.headBranchName.v)

\* C6: no match is a normal outcome: under the default rule a branch name
\* without letters-digits text yields no ticket, raises nothing, and its
\* commit keeps message and bareMessage.
C6_NoMatch ==
    /\ (Extracted(DefaultPattern) /\ NoLettersDigits(fn.branchName))
         => fn.out = Null
    /\ opts.ticketPattern = Undefined =>
         /\ \A r \in DOMAIN heap :
              PlainBranch(orig.records[r])
                => /\ heap[r].message = orig.records[r].message
                   /\ heap[r].bareMessage = orig.records[r].bareMessage
         /\ pc = "throwing" => ~PlainBranch(heap[list[idx]])

\* a call with the default rule returned after passing a commit of branch
\* fix-typo, and annotated another commit
C6_Witness ==
    /\ pc = "returned" /\ opts.ticketPattern = Undefined
    /\ \E r \in Processed :
         orig.records[r].pullRequest = PullRequest(Str("fix-typo"))
    /\ heap # orig.records

\* C7: bit-exact link rendering of formatJiraLink for both styles.
C7_BitExact ==
    (fn.op = "format" /\ fn.done) =>
        /\ fn.linkStyle = "inline"
             => fn.out = Str(" ([" \o fn.ticketId \o "](" \o fn.jiraBaseUrl
                               \o "/browse/" \o fn.ticketId \o "))")
        /\ fn.linkStyle = "newline"
             => fn.out = Str("\n  [" \o fn.ticketId \o "](" \o fn.jiraBaseUrl
                               \o "/browse/" \o fn.ticketId \o ")")
        /\ (fn.linkStyle = "inline" /\ fn.ticketId = "QUIKS-674"
              /\ fn.jiraBaseUrl = "https://example.atlassian.net")
             => fn.out =
                  Str(" ([QUIKS-674](https://example.atlassian.net/browse/QUIKS-674))")

\* the documented example was rendered
C7_Witness ==
    /\ fn.op = "format" /\ fn.done
    /\ fn.linkStyle = "inline" /\ fn.ticketId = "QUIKS-674"
    /\ fn.jiraBaseUrl = "https://example.atlassian.net"
    /\ fn.out.t = "string" /\ Len(fn.out.v) = 62

\* the record has no pull request, or its pull request has no branch name
NoAssociation(c) ==
    \/ c.pullRequest = Undefined
    \/ c.pullRequest.v.headBranchName \in {Undefined, Str("")}

\* C8: a commit without pull request or branch name keeps message and
\* bareMessage and raises nothing, whatever else is in the list.
C8_SkipMissing ==
    /\ \A r \in DOMAIN heap :
         NoAssociation(orig.records[r])
           => /\ heap[r].message = orig.records[r].message
              /\ heap[r].bareMessage = orig.records[r].bareMessage
    /\ pc = "throwing" => ~NoAssociation(heap[list[idx]])

\* a call returned after passing a commit without association and annotating
\* another commit of the list
C8_Witness ==
    /\ pc = "returned"
    /\ \E r \in Processed : NoAssociation(orig.records[r])
    /\ heap # orig.records

\* the ticket the current call finds for record r (r has a branch name)
TicketAtEntry(r) == extractJiraTicket(BranchOf(before[r]), loc.v.ticketPattern)

\* the field was extended if and only if it did not hold the ticket
ExtendedIffNew(new, old, ticketId) ==
    IF includes(old, ticketId) THEN new = old ELSE Extended(new, old)

\* both fields of record r obey the rule for ticket t
BothFields(r, t) ==
    t.t = "string"
      => /\ ExtendedIffNew(heap[r].message, before[r].message, t.v)
         /\ ExtendedIffNew(heap[r].bareMessage, before[r].bareMessage, t.v)

\* C9: independent duplicate checks: for a commit whose branch yields T,
\* message is extended iff it did not hold T before the call, and
\* bareMessage is extended iff it did not hold T before the call.
C9_Independent ==
    EngineRun =>
        \A r \in Processed :
            HasBranch(before[r]) => BothFields(r, TicketAtEntry(r))

\* only message grew: bareMessage held ticket t and message did not
OnlyMessageGrew(r, t) ==
    /\ t.t = "string"
    /\ includes(before[r].bareMessage, t.v)
    /\ ~includes(before[r].message, t.v)
    /\ Extended(heap[r].message, before[r].message)
    /\ heap[r].bareMessage = before[r].bareMessage

\* a call returned after extending message alone
C9_Witness ==
    /\ pc = "returned"
    /\ \E r \in Processed :
         HasBranch(before[r]) /\ OnlyMessageGrew(r, TicketAtEntry(r))

\* C10: output frame: the array returned is the array given, with the same
\* length and order, and in every record only message and bareMessage may
\* differ from what the host pipeline built.
C10_Frame ==
    /\ list = orig.commits
    /\ DOMAIN heap = DOMAIN orig.records
    /\ \A r \in DOMAIN heap :
         /\ heap[r].sha = orig.records[r].sha
         /\ heap[r].type = orig.records[r].type
         /\ heap[r].pullRequest = orig.records[r].pullRequest
    /\ pc = "returned" => ret = Obj("commits")

\* a call on a list of two commits returned after annotating
C10_Witness ==
    /\ pc = "returned" /\ ret = Obj("commits")
    /\ Len(list) >= 2
    /\ heap # orig.records

\* a call has ended: returned, or thrown to its caller
Finished == pc \in {"returned", "thrown"}

\* new is old, or old followed by exactly link
OldThenLink(new, old, link) == new = old \/ new = old \o link

\* both fields of record r are as before the call, or followed by link
BothOldThenLink(r, link) ==
    /\ OldThenLink(heap[r].message, before[r].message, link)
    /\ OldThenLink(heap[r].bareMessage, before[r].bareMessage, link)

\* the fields of record r carry, after their content before the call, at
\* most the formatted link of ticket t
AppendedOnly(r, t) ==
    BothOldThenLink(r, IF t.t = "string"
                       THEN formatJiraLink(t.v, loc.v.jiraBaseUrl, loc.v.linkStyle)
                       ELSE "")

\* C11: append, never replace: after a call each message and bareMessage
\* is its value before the call followed by a suffix that is empty or
\* exactly the formatted link of that commit's ticket.
C11_AppendOnly ==
    Finished =>
        \A r \in DOMAIN heap :
            IF HasBranch(before[r]) THEN AppendedOnly(r, TicketAtEntry(r))
            ELSE BothOldThenLink(r, "")

\* a call returned with the example commit's two fields followed by the link
C11_Witness ==
    /\ pc = "returned" /\ ~raised
    /\ \E r \in Processed :
         /\ before[r].message = DocMessage
         /\ Extended(heap[r].message, before[r].message)
         /\ Extended(heap[r].bareMessage, before[r].bareMessage)

\* C12: failures never abort the release: no call of processCommits ends by
\* propagating an error, and the call in which the engine raised (on a rule
\* whose match has no group 1, or on a record that lacks a field) returns
\* the commit collection it was given.
C12_NeverAborts ==
    via = "plugin" =>
        /\ pc # "thrown"
        /\ pc = "returned" => (ret = Obj("commits") /\ list = orig.commits)

\* processCommits returned after the engine raised on a record that lacks
\* bareMessage
C12_Witness ==
    /\ via = "plugin" /\ pc = "returned" /\ raised
    /\ ret = Obj("commits")
    /\ heap[list[idx]].absent = {"bareMessage"}

\* the records and the raised / not raised result of the call that ended
Outcome == [heap |-> heap, raised |-> raised]

\* the resolved options o with debug set to d
WithDebug(o, d) == [o EXCEPT !.debug = d]

Given == IF via = "plugin" THEN plugin.v ELSE opts

\* the base URL in use is the one given, or the default when the given
\* one is in unset
BaseUrlUsed(unset) ==
    loc.v.jiraBaseUrl =
        IF Given.jiraBaseUrl \in unset THEN "https://yourcompany.atlassian.net"
        ELSE Given.jiraBaseUrl.v

\* rule, style and debug in use are the ones given, or their defaults
OthersUsed ==
    /\ loc.v.ticketPattern =
          IF Given.ticketPattern = Undefined
          THEN Rule("", {}, 2, 10, "whole", TRUE, FALSE)
          ELSE Given.ticketPattern.v
    /\ loc.v.linkStyle =
          IF Given.linkStyle = Undefined THEN "inline" ELSE Given.linkStyle.v
    /\ loc.v.debug = (Given.debug = Bool(TRUE))

\* record r was the documented example commit when the call began
ExampleCommit(r) ==
    /\ before[r].message = "feat: add feature"
    /\ before[r].bareMessage = "feat: add feature"
    /\ before[r].pullRequest = PullRequest(Str("PLAYG-1008-test-feature"))
    /\ before[r].absent = {}

ExampleResult ==
    "feat: add feature ([PLAYG-1008](https://yourcompany.atlassian.net/browse/PLAYG-1008))"

\* with no option given, the example commit ends as documented
ExampleHolds ==
    Given = Options(Undefined, Undefined, Undefined, Undefined) =>
        \A r \in Processed :
            ExampleCommit(r) => /\ heap[r].message = ExampleResult
                                /\ heap[r].bareMessage = ExampleResult

\* C14 as stated: an option that is not supplied takes its default, the
\* example commit ends with the documented text in both fields, and a
\* supplied option always overrides its default.
C14_SuppliedAlways ==
    EngineRun => (BaseUrlUsed({Undefined}) /\ OthersUsed /\ ExampleHolds)

\* C14: defaults: an option that is not supplied takes its default, as does
\* a baseUrl supplied as the empty string; the example commit ends with the
\* documented text in both fields; a supplied rule, style or non-empty
\* baseUrl overrides its default.
C14_Defaults ==
    EngineRun =>
        (BaseUrlUsed({Undefined, Str("")}) /\ OthersUsed /\ ExampleHolds)

\* a direct call without options returned the documented example
C14_Witness ==
    /\ pc = "returned" /\ via = "direct"
    /\ opts = Options(Undefined, Undefined, Undefined, Undefined)
    /\ \E r \in Processed :
         ExampleCommit(r) /\ heap[r].message = ExampleResult
                          /\ heap[r].bareMessage = ExampleResult

\* what new carries after old
Suffix(new, old) == Sub(new, Len(old) + 1, Len(new))

\* the URL of the markdown link is exactly url
UrlIn(link, url) == includes(link, "](" \o url \o ")")

EndsInSlash(url) == CharAt(url, Len(url)) = "/"

\* link is empty, or its URL is base, "/browse/", ticket, the slash of
\* "/browse/" doubled exactly when base ends in one
VerbatimIn(link, base, ticketId) ==
    link = "" \/ (/\ UrlIn(link, base \o "/browse/" \o ticketId)
                  /\ EndsInSlash(base) <=> includes(link, "//browse/"))

\* what either field of record r gained has the URL of ticket t
VerbatimFor(r, t) ==
    t.t = "string" =>
        /\ VerbatimIn(Suffix(heap[r].message, before[r].message),
                      loc.v.jiraBaseUrl, t.v)
        /\ VerbatimIn(Suffix(heap[r].bareMessage, before[r].bareMessage),
                      loc.v.jiraBaseUrl, t.v)

\* C15: the base URL is used verbatim: the URL of every link, formatted or
\* appended, is baseUrl, "/browse/", identifier; a baseUrl that ends in "/"
\* gives "//browse/", one that does not gives "/browse/".
C15_Verbatim ==
    /\ (fn.op = "format" /\ fn.done)
         => (fn.out.v # "" /\ VerbatimIn(fn.out.v, fn.jiraBaseUrl, fn.ticketId))
    /\ Finished =>
         /\ Given.jiraBaseUrl.t = "string" /\ Given.jiraBaseUrl.v # ""
              => loc.v.jiraBaseUrl = Given.jiraBaseUrl.v
         /\ \A r \in Processed :
              HasBranch(before[r]) => VerbatimFor(r, TicketAtEntry(r))

\* a call given a base URL that ends in "/" returned after appending a link
\* with "//browse/"
C15_Witness ==
    /\ pc = "returned"
    /\ Given.jiraBaseUrl = Str("https://j.example/")
    /\ \E r \in Processed :
         includes(Suffix(heap[r].message, before[r].message),
                  "](https://j.example//browse/PLAYG-1008)")

\* C16: extraction never fails for a structurally valid rule: every call of
\* extractJiraTicket, whatever the rule (without capturing group, with a
\* group that takes no part in the match, with the g flag), returns a
\* ticket or null and raises no error.
C16_NeverRaises ==
    (fn.op = "extract" /\ fn.done) => (fn.out = Null \/ fn.out.t = "string")

\* the orders in which n commits can be listed
Perms(n) == {p \in [1..n -> 1..n] : \A i, j \in 1..n : p[i] = p[j] => i = j}

\* the list l in the order p
Permuted(l, p) == [i \in 1..Len(l) |-> l[p[i]]]

\* C17: order independence: the call that ended left every record as the
\* same call leaves it on any permutation of the commit list.
C17_OrderIndependent ==
    Finished =>
        \A p \in Perms(Len(list)) :
            Loop(before, Permuted(list, p), 1, loc.v).heap = heap

\* the one string T is label and last path segment of the link
LabelAndUrl(link, base, T) ==
    link = "" \/ includes(link, "[" \o T \o "](" \o base \o "/browse/" \o T \o ")")

\* both fields of record r were checked for T and carry T in their link
CanonIn(r, T) ==
    /\ ExtendedIffNew(heap[r].message, before[r].message, T)
    /\ ExtendedIffNew(heap[r].bareMessage, before[r].bareMessage, T)
    /\ LabelAndUrl(Suffix(heap[r].message, before[r].message),
                   loc.v.jiraBaseUrl, T)
    /\ LabelAndUrl(Suffix(heap[r].bareMessage, before[r].bareMessage),
                   loc.v.jiraBaseUrl, T)

\* m is the match of the rule in the branch name of record r
CanonFor(r, m) ==
    (m.found /\ m.g1.t = "string") => CanonIn(r, toUpperCase(m.g1.v))

\* out is the first group of the match m in upper case
FirstGroupUpper(m, out) ==
    m.found /\ m.g1.t = "string" /\ out = toUpperCase(m.g1.v)

\* C18: canonical identifier: for any rule the identifier is the first
\* captured group of the match in upper case, and that one string is the
\* link label, the last path segment of the URL and the text of both
\* duplicate checks.
C18_Canonical ==
    /\ (fn.op = "extract" /\ fn.done /\ fn.out.t = "string")
         => FirstGroupUpper(Exec(fn.branchName, 1, fn.ticketPattern), fn.out.v)
    /\ EngineRun =>
         \A r \in Processed :
            HasBranch(before[r])
              => CanonFor(r, Exec(BranchOf(before[r]), 1, loc.v.ticketPattern))

\* record r had a branch of a project the documented rule does not name
OtherProject(r) == before[r].pullRequest = PullRequest(Str("OTHER-5-fix"))

\* record r, the example commit, carries the link of the full ticket
FullTicketLinked(r) ==
    /\ heap[r].message
         = before[r].message
             \o formatJiraLink("PLAYG-1008", loc.v.jiraBaseUrl, loc.v.linkStyle)
    /\ heap[r].bareMessage
         = before[r].bareMessage
             \o formatJiraLink("PLAYG-1008", loc.v.jiraBaseUrl, loc.v.linkStyle)

\* C19: the documented project-restricted rule /(PLAYG|QUIKS|TICKET)-\d+/i:
\* a commit of branch PLAYG-1008-test-feature is annotated with a link whose
\* label and URL name the full ticket PLAYG-1008, as with the default rule;
\* branches of other projects are not annotated.
C19_DocRule ==
    /\ (Extracted(DocPattern) /\ fn.branchName = "PLAYG-1008-test-feature")
         => fn.out = Str("PLAYG-1008")
    /\ (Extracted(DocPattern) /\ fn.branchName = "OTHER-5-fix") => fn.out = Null
    /\ (EngineRun /\ loc.v.ticketPattern = DocPattern) =>
         \A r \in Processed :
            /\ ExampleCommit(r) => FullTicketLinked(r)
            /\ OtherProject(r) => BothOldThenLink(r, "")

\* the documented ticket in fields that hold its text as part of a longer
\* token, in lower case only, and outside any link
IncidentalCases(r) ==
    /\ before[r].message = "see PLAYG-10081"
         => heap[r].message = "see PLAYG-10081"
    /\ before[r].message = "fix playg-1008"
         => Extended(heap[r].message, "fix playg-1008")
    /\ before[r].bareMessage = "PLAYG-1008 fix"
         => heap[r].bareMessage = "PLAYG-1008 fix"

\* each field of record r was extended iff it did not hold the text of t
SubstringRule(r, t) ==
    /\ BothFields(r, t)
    /\ t = Str("PLAYG-1008") => IncidentalCases(r)

\* C20: the duplicate check is a plain substring test: a field that holds
\* the identifier's text anywhere (outside any link, or inside a longer
\* token such as PLAYG-10081) gets nothing appended, a field that holds it
\* in lower case only is still extended.
C20_Substring ==
    Finished =>
        \A r \in Processed :
            (HasBranch(before[r]) /\ before[r].absent = {})
              => SubstringRule(r, TicketAtEntry(r))

\* a call returned that skipped the message holding PLAYG-10081 and
\* extended the bareMessage of the same commit
C20_Witness ==
    /\ pc = "returned" /\ ~raised
    /\ \E r \in Processed :
         /\ before[r].message = "see PLAYG-10081"
         /\ heap[r].message = "see PLAYG-10081"
         /\ includes(Suffix(heap[r].bareMessage, before[r].bareMessage),
                     "[PLAYG-1008](")

\* x is a text that is not empty
NonEmpty(x) == x.t = "string" /\ x.v # ""

\* the base URL by precedence: caller's option, environment, default
AdapterBaseUrl ==
    IF NonEmpty(opts.jiraBaseUrl) THEN opts.jiraBaseUrl.v
    ELSE IF NonEmpty(env.JIRA_BASE_URL) THEN env.JIRA_BASE_URL.v
    ELSE "https://yourcompany.atlassian.net"

\* debug by precedence: the caller's true, or JIRA_LINK_DEBUG exactly 'true'
AdapterDebug == opts.debug = Bool(TRUE) \/ env.JIRA_LINK_DEBUG = Str("true")

\* the constructed plugin holds the values by precedence, and the call of
\* annotate that processCommits makes works with them
FixedByPrecedence ==
    (via = "plugin" /\ pc # "new") =>
        /\ plugin.v.jiraBaseUrl = Str(AdapterBaseUrl)
        /\ plugin.v.debug = Bool(AdapterDebug)
        /\ EngineRun => /\ loc.v.jiraBaseUrl = AdapterBaseUrl
                        /\ loc.v.debug = AdapterDebug

BothCarry(r, t) ==
    (t.t = "string" /\ t.v # "")
      => /\ includes(heap[r].message, t.v)
         /\ includes(heap[r].bareMessage, t.v)

\* C22: both views end up carrying the ticket: after a call that returned
\* normally, message and bareMessage of every commit whose branch yields a
\* ticket T contain T, whatever they held before the call.
C22_BothCarry ==
    (pc = "returned" /\ ~raised) =>
        \A r \in Processed :
            HasBranch(before[r]) => BothCarry(r, TicketAtEntry(r))

\* a call returned normally on a commit of which only bareMessage held the
\* ticket before: now message holds it too
C22_Witness ==
    /\ pc = "returned" /\ ~raised
    /\ \E r \in Processed :
         /\ before[r].message = "fix" /\ before[r].bareMessage = "fix AB-1"
         /\ HasBranch(before[r])
         /\ includes(heap[r].message, "AB-1")
         /\ heap[r].bareMessage = "fix AB-1"

====
